---- MODULE Spec2Model ----
(***************************************************************************)
(* Account storage of the Cadence runtime (runtime.Storage): the cache of *)
(* storage maps, the buffered register writes, the deferred contract      *)
(* updates, Commit and the backing ledger / slab storage.                  *)
(***************************************************************************)
EXTENDS Integers, Sequences, FiniteSets, TLC

(***************************************************************************)
(* Bounds of the model.                                                    *)
(***************************************************************************)
\* storage indices the ledger hands out per address
MaxIndex == 2
\* contract values deployed over a behaviour
MaxValues == 2
\* engines constructed over the ledger, one after the other
MaxEngines == 2

(***************************************************************************)
(* Program constants.                                                      *)
(***************************************************************************)
storageIndexLength == 8

StorageDomainContract == "contract"

(***************************************************************************)
(* Addresses, domains and names; strings are compared by their bytes.      *)
(***************************************************************************)
ZeroAddress == <<0, 0, 0, 0, 0, 0, 0, 0>>
Account1 == <<0, 0, 0, 0, 0, 0, 0, 1>>

Addresses == {ZeroAddress, Account1}

Domains == {StorageDomainContract, "storage", "public"}

Names == {"A", "B"}

Strings == Domains \cup Names

\* the UTF-8 bytes of the strings of the model
StringBytes(str) ==
    CASE str = "contract" -> <<99, 111, 110, 116, 114, 97, 99, 116>>
      [] str = "storage" -> <<115, 116, 111, 114, 97, 103, 101>>
      [] str = "public" -> <<112, 117, 98, 108, 105, 99>>
      [] str = "A" -> <<65>>
      [] str = "B" -> <<66>>

EmptyMap == [x \in {} |-> x]

\* interpreter.StorageKey{Address, Key}
StorageKey(address, key) == [Address |-> address, Key |-> key]

StorageKeys == {StorageKey(a, k) : a \in Addresses, k \in Strings}

\* bytes.Compare / strings.Compare: -1, 0 or 1, lexicographic on bytes
RECURSIVE CompareBytes(_, _)
CompareBytes(a, b) ==
    IF Len(a) = 0 /\ Len(b) = 0 THEN 0
    ELSE IF Len(a) = 0 THEN -1
    ELSE IF Len(b) = 0 THEN 1
    ELSE IF Head(a) < Head(b) THEN -1
    ELSE IF Head(a) > Head(b) THEN 1
    ELSE CompareBytes(Tail(a), Tail(b))

\* StorageKey.IsLess: by address bytes, then by key string
IsLess(a, b) ==
    LET c == CompareBytes(a.Address, b.Address)
    IN  IF c = -1 THEN TRUE
        ELSE IF c = 0 THEN CompareBytes(StringBytes(a.Key), StringBytes(b.Key)) < 0
        ELSE FALSE

\* the orders in which a range over a Go map with key set S may visit it
RECURSIVE Orders(_)
Orders(S) ==
    IF S = {} THEN {<<>>}
    ELSE UNION {{<<x>> \o rest : rest \in Orders(S \ {x})} : x \in S}

(***************************************************************************)
(* Errors.                                                                 *)
(***************************************************************************)
NoError == [kind |-> "none", domain |-> "", expected |-> 0, got |-> 0, ids |-> <<>>]

\* the errors the ledger returns from GetValue and from SetValue
GetValueError == [kind |-> "ledger GetValue", domain |-> "", expected |-> 0, got |-> 0, ids |-> <<>>]

SetValueError == [kind |-> "ledger SetValue", domain |-> "", expected |-> 0, got |-> 0, ids |-> <<>>]

NilDereference == [kind |-> "nil dereference", domain |-> "", expected |-> 0, got |-> 0, ids |-> <<>>]

SlabNotFound == [kind |-> "slab not found", domain |-> "", expected |-> 0, got |-> 0, ids |-> <<>>]

\* "invalid storage index for storage map with domain '%s': expected length %d, got %d"
InvalidStorageIndex(domain, expected, got) ==
    [kind |-> "invalid storage index", domain |-> domain, expected |-> expected, got |-> got,
     ids |-> <<>>]

\* "account storage map points to non-existing slab %s"
PointsToNonExistingSlab(storageID) ==
    [kind |-> "account storage map points to non-existing slab", domain |-> "",
     expected |-> 0, got |-> 0, ids |-> <<storageID>>]

\* "slabs not referenced from account storage: %s"
SlabsNotReferenced(storageIDs) ==
    [kind |-> "slabs not referenced from account storage", domain |-> "",
     expected |-> 0, got |-> 0, ids |-> storageIDs]

\* the error atree.CheckStorageHealth returns for a store it finds broken
CheckStorageHealthError ==
    [kind |-> "slab storage health", domain |-> "", expected |-> 0, got |-> 0, ids |-> <<>>]

(***************************************************************************)
(* State.                                                                  *)
(***************************************************************************)
VARIABLES
    ledger,          \* the registers of the Ledger: StorageKey -> bytes (<<>>: no value)
    nextIndex,       \* the Ledger's storage index allocator, per address
    baseStorage,     \* the slabs persisted by the slab storage: StorageID -> contents
    deltas,          \* the slabs of the engine not yet persisted: StorageID -> contents
    writes,          \* Storage.writes
    storageMaps,     \* Storage.storageMaps
    contractUpdates, \* Storage.contractUpdates
    nextValue,       \* the next contract value the interpreter deploys
    engines,         \* the engines constructed so far
    handed,          \* per key, the storage map objects GetStorageMap has returned
    lastError,       \* the error or panic the last operation ended with
    parsed           \* the last call of ParseLiteral: its arguments and results

vars == <<ledger, nextIndex, baseStorage, deltas, writes, storageMaps,
          contractUpdates, nextValue, engines, handed, lastError, parsed>>

(***************************************************************************)
(* Values of the model.                                                    *)
(***************************************************************************)
\* atree.StorageID{Address, Index}; the index is an array of 8 bytes
StorageID(address, index) == [Address |-> address, Index |-> index]

\* the big-endian bytes of the n-th storage index of an address
IndexBytes(n) == [i \in 1..storageIndexLength |-> IF i = storageIndexLength THEN n ELSE 0]

\* a contract value is a number from 1; 0 is Go's nil
NilContract == 0

\* the atree.Storable of a contract value, and the nil Storable
NilStorable == [isNil |-> TRUE, slab |-> 0]

\* the optional values written into the "contract" storage map
NilValue == [some |-> FALSE, value |-> 0]

NewSomeValueNonCopying(value) == [some |-> TRUE, value |-> value]

\* a *interpreter.StorageMap: the root it views and which object it is
StorageMapObject(root, object) == [root |-> root, object |-> object]

NoStorageMap == StorageMapObject(StorageID(ZeroAddress, <<>>), 0)

NoFault == [op |-> "none", key |-> StorageKey(ZeroAddress, "")]

GetValueFault(key) == [op |-> "GetValue", key |-> key]

SetValueFault(key) == [op |-> "SetValue", key |-> key]

CheckStorageHealthFault == [op |-> "CheckStorageHealth", key |-> StorageKey(ZeroAddress, "")]

(***************************************************************************)
(* The engine and its backend as one record, so that operations compose.  *)
(***************************************************************************)
Engine ==
    [ledger |-> ledger, nextIndex |-> nextIndex, baseStorage |-> baseStorage,
     deltas |-> deltas, writes |-> writes, storageMaps |-> storageMaps,
     contractUpdates |-> contractUpdates, handed |-> handed,
     events |-> <<>>, status |-> "ok", err |-> NoError, ret |-> NoStorageMap,
     overflow |-> FALSE]

Emit(s, e) == [s EXCEPT !.events = Append(@, e)]

Panic(s, err) == [s EXCEPT !.status = "panic", !.err = err]

\* the storage map objects made so far over a root
ObjectsOver(s, root) ==
    {o \in UNION {s.handed[k] : k \in DOMAIN s.handed} : o.root = root}

(***************************************************************************)
(* Slab storage and storage maps (atree, interpreter).                     *)
(***************************************************************************)
SlabExists(s, id) == id \in DOMAIN s.deltas \/ id \in DOMAIN s.baseStorage

RetrieveSlab(s, id) == IF id \in DOMAIN s.deltas THEN s.deltas[id] ELSE s.baseStorage[id]

\* interpreter.NewStorageMap: a new root slab in the address, empty
NewStorageMap(s, address) ==
    LET n == s.nextIndex[address] + 1
        id == StorageID(address, IndexBytes(n))
        s1 == Emit(s, [op |-> "AllocateStorageIndex", id |-> id])
    IN  IF n > MaxIndex THEN [s EXCEPT !.overflow = TRUE]
        ELSE [s1 EXCEPT !.nextIndex[address] = n,
                        !.deltas = (id :> EmptyMap) @@ @,
                        !.ret = StorageMapObject(id, Cardinality(ObjectsOver(s, id)) + 1)]

\* interpreter.NewStorageMapWithRootID: a view of the map rooted at the ID
NewStorageMapWithRootID(s, storageID) ==
    [s EXCEPT !.ret = StorageMapObject(storageID, Cardinality(ObjectsOver(s, storageID)) + 1)]

\* StorageMap.WriteValue: set the entry of the name in the root slab
WriteValue(s, storageMap, name, value) ==
    LET id == storageMap.root
        s1 == Emit(s, [op |-> "WriteValue", id |-> id, name |-> name, value |-> value])
    IN  IF ~SlabExists(s, id) THEN Panic(s1, SlabNotFound)
        ELSE [s1 EXCEPT !.deltas = (id :> ((name :> value) @@ RetrieveSlab(s, id))) @@ @]

\* PersistentSlabStorage.GenerateStorageID and Store, which Storage embeds, as
\* the interpreter uses them for a temporary value: a new root slab of the
\* zero address
StoreTemporarySlab(s) ==
    LET n == s.nextIndex[ZeroAddress] + 1
        id == StorageID(ZeroAddress, IndexBytes(n))
        s1 == Emit(s, [op |-> "AllocateStorageIndex", id |-> id])
    IN  IF n > MaxIndex THEN [s EXCEPT !.overflow = TRUE]
        ELSE [s1 EXCEPT !.nextIndex[ZeroAddress] = n, !.deltas = (id :> EmptyMap) @@ @]

\* PersistentSlabStorage.Remove: the slab is no slab of the store any more
RemoveSlab(s, id) ==
    [s EXCEPT !.deltas = [k \in DOMAIN @ \ {id} |-> @[k]],
              !.baseStorage = [k \in DOMAIN @ \ {id} |-> @[k]]]

\* Value.Storable with the maximum inline size
Storable(value) == [isNil |-> FALSE, slab |-> value]

\* interpreter.StoredValue: a method call on the Storable, which must not be nil
StoredValue(s, storable) ==
    IF storable.isNil THEN Panic(s, NilDereference)
    ELSE [s EXCEPT !.ret = storable.slab]

\* PersistentSlabStorage.FastCommit: persist the deltas
FastCommit(s) ==
    LET s1 == Emit(s, [op |-> "FastCommit"])
    IN  [s1 EXCEPT !.baseStorage = s.deltas @@ @, !.deltas = EmptyMap]

(***************************************************************************)
(* Storage.GetStorageMap                                                   *)
(***************************************************************************)
\* copy(storageIndex[:], data) into a zeroed array of 8 bytes
CopyIndex(data) ==
    [i \in 1..storageIndexLength |-> IF i <= Len(data) THEN data[i] ELSE 0]

\* loadExistingStorageMap without the check of the length
loadExistingStorageMap_Unchecked(s, address, domain, data) ==
    NewStorageMapWithRootID(s, StorageID(address, CopyIndex(data)))

loadExistingStorageMap(s, address, domain, data) ==
    IF Len(data) # storageIndexLength
    THEN Panic(s, InvalidStorageIndex(domain, storageIndexLength, Len(data)))
    ELSE NewStorageMapWithRootID(s, StorageID(address, CopyIndex(data)))

\* storeNewStorageMap without the write of the storage index
storeNewStorageMap_Unbuffered(s, address, domain) ==
    NewStorageMap(s, address)

\* storeNewStorageMap writing the storage index to the ledger at once
storeNewStorageMap_WritingThrough(s, address, domain) ==
    LET s1 == NewStorageMap(s, address)
        storageIndex == s1.ret.root.Index
        storageKey == StorageKey(address, domain)
        s2 == Emit(s1, [op |-> "SetValue", key |-> storageKey, data |-> storageIndex])
    IN  IF s1.overflow THEN s1
        ELSE [s2 EXCEPT !.writes = (storageKey :> storageIndex) @@ @,
                        !.ledger[storageKey] = storageIndex]

\* storeNewStorageMap creating the storage map at the zero address
storeNewStorageMap_Unowned(s, address, domain) ==
    LET s1 == NewStorageMap(s, ZeroAddress)
        storageIndex == s1.ret.root.Index
        storageKey == StorageKey(address, domain)
    IN  IF s1.overflow THEN s1
        ELSE [s1 EXCEPT !.writes = (storageKey :> storageIndex) @@ @]

storeNewStorageMap(s, address, domain) ==
    LET s1 == NewStorageMap(s, address)
        storageIndex == s1.ret.root.Index
        storageKey == StorageKey(address, domain)
    IN  IF s1.overflow THEN s1
        ELSE [s1 EXCEPT !.writes = (storageKey :> storageIndex) @@ @]

\* the object is what a GetStorageMap call for the key returns
Return(s, key, storageMap) ==
    [s EXCEPT !.ret = storageMap,
              !.handed = (key :> ((IF key \in DOMAIN s.handed THEN s.handed[key] ELSE {})
                                  \cup {storageMap})) @@ @]

\* GetStorageMap without the lookup in s.storageMaps
GetStorageMap_Uncached(s, address, domain, fault) ==
    LET key == StorageKey(address, domain)
        local == key \in DOMAIN s.writes
        s1 == IF local THEN s ELSE Emit(s, [op |-> "GetValue", key |-> key])
        data == IF local THEN s.writes[key] ELSE s.ledger[key]
    IN  IF ~local /\ fault = GetValueFault(key) THEN Panic(s1, GetValueError)
        ELSE
            LET s2 == IF Len(data) > 0
                      THEN loadExistingStorageMap(s1, address, domain, data)
                      ELSE storeNewStorageMap(s1, address, domain)
            IN  IF s2.status # "ok" \/ s2.overflow THEN s2
                ELSE Return([s2 EXCEPT !.storageMaps = (key :> s2.ret) @@ @], key, s2.ret)

\* GetStorageMap caching a view of the register before the register is checked
GetStorageMap_CachingFirst(s, address, domain, fault) ==
    LET key == StorageKey(address, domain)
    IN  IF key \in DOMAIN s.storageMaps
        THEN Return(s, key, s.storageMaps[key])
        ELSE
            LET local == key \in DOMAIN s.writes
                s1 == IF local THEN s ELSE Emit(s, [op |-> "GetValue", key |-> key])
                data == IF local THEN s.writes[key] ELSE s.ledger[key]
                view == NewStorageMapWithRootID(s1, StorageID(address, CopyIndex(data))).ret
                early == [s1 EXCEPT !.storageMaps = (key :> view) @@ @]
            IN  IF ~local /\ fault = GetValueFault(key) THEN Panic(s1, GetValueError)
                ELSE
                    LET s2 == IF Len(data) > 0
                              THEN loadExistingStorageMap(early, address, domain, data)
                              ELSE storeNewStorageMap(s1, address, domain)
                    IN  IF s2.status # "ok" \/ s2.overflow THEN s2
                        ELSE Return([s2 EXCEPT !.storageMaps = (key :> s2.ret) @@ @],
                                    key, s2.ret)

\* GetStorageMap caching the storage maps it loads, not the ones it creates
GetStorageMap_CachingLoaded(s, address, domain, fault) ==
    LET key == StorageKey(address, domain)
    IN  IF key \in DOMAIN s.storageMaps
        THEN Return(s, key, s.storageMaps[key])
        ELSE
            LET local == key \in DOMAIN s.writes
                s1 == IF local THEN s ELSE Emit(s, [op |-> "GetValue", key |-> key])
                data == IF local THEN s.writes[key] ELSE s.ledger[key]
            IN  IF ~local /\ fault = GetValueFault(key) THEN Panic(s1, GetValueError)
                ELSE
                    LET s2 == IF Len(data) > 0
                              THEN loadExistingStorageMap(s1, address, domain, data)
                              ELSE storeNewStorageMap(s1, address, domain)
                    IN  IF s2.status # "ok" \/ s2.overflow THEN s2
                        ELSE IF Len(data) > 0
                        THEN Return([s2 EXCEPT !.storageMaps = (key :> s2.ret) @@ @],
                                    key, s2.ret)
                        ELSE Return(s2, key, s2.ret)

GetStorageMap(s, address, domain, fault) ==
    LET key == StorageKey(address, domain)
    IN  IF key \in DOMAIN s.storageMaps
        THEN Return(s, key, s.storageMaps[key])
        ELSE
            LET local == key \in DOMAIN s.writes
                s1 == IF local THEN s ELSE Emit(s, [op |-> "GetValue", key |-> key])
                data == IF local THEN s.writes[key] ELSE s.ledger[key]
            IN  IF ~local /\ fault = GetValueFault(key) THEN Panic(s1, GetValueError)
                ELSE
                    LET s2 == IF Len(data) > 0
                              THEN loadExistingStorageMap(s1, address, domain, data)
                              ELSE storeNewStorageMap(s1, address, domain)
                    IN  IF s2.status # "ok" \/ s2.overflow THEN s2
                        ELSE Return([s2 EXCEPT !.storageMaps = (key :> s2.ret) @@ @],
                                    key, s2.ret)

(***************************************************************************)
(* Storage.recordContractUpdate                                            *)
(***************************************************************************)
\* recordContractUpdate leaving the existing Storable of the key as it is
removeExisting_Leaking(s, key) == s

\* the removal of the existing Storable of the key, if any
removeExisting(s, key) ==
    IF key \in DOMAIN s.contractUpdates
    THEN LET existingStorable == s.contractUpdates[key]
             s1 == StoredValue(s, existingStorable)
         IN  IF s1.status # "ok" THEN s1
             ELSE Emit(Emit(s1, [op |-> "DeepRemove", value |-> s1.ret]),
                       [op |-> "RemoveReferencedSlab", storable |-> existingStorable])
    ELSE s

\* recordContractUpdate deleting the entry of a removed contract
recordContractUpdate_Forgetting(s, address, name, contract) ==
    LET key == StorageKey(address, name)
        s1 == removeExisting(s, key)
    IN  IF s1.status # "ok" THEN s1
        ELSE IF contract = NilContract
        THEN [s1 EXCEPT !.contractUpdates = [k \in DOMAIN @ \ {key} |-> @[k]]]
        ELSE [s1 EXCEPT !.contractUpdates = (key :> Storable(contract)) @@ @]

recordContractUpdate(s, address, name, contract) ==
    LET key == StorageKey(address, name)
        s1 == removeExisting(s, key)
    IN  IF s1.status # "ok" THEN s1
        ELSE IF contract = NilContract
        THEN [s1 EXCEPT !.contractUpdates = (key :> NilStorable) @@ @]
        ELSE [s1 EXCEPT !.contractUpdates = (key :> Storable(contract)) @@ @]

(***************************************************************************)
(* Storage.commitContractUpdates                                           *)
(***************************************************************************)
ContractUpdate(key, storable) == [Key |-> key, Storable |-> storable]

RECURSIVE InsertContractUpdate(_, _)
InsertContractUpdate(update, sorted) ==
    IF Len(sorted) = 0 THEN <<update>>
    ELSE IF IsLess(update.Key, Head(sorted).Key) THEN <<update>> \o sorted
    ELSE <<Head(sorted)>> \o InsertContractUpdate(update, Tail(sorted))

\* the contract updates left in the order of the range over the map
SortContractUpdates_Unsorted(updates) == updates

\* sort.Slice by StorageKey.IsLess
RECURSIVE SortContractUpdates(_)
SortContractUpdates(updates) ==
    IF Len(updates) = 0 THEN updates
    ELSE InsertContractUpdate(Head(updates), SortContractUpdates(Tail(updates)))

writeContractUpdate(s, key, storable, fault) ==
    LET s1 == GetStorageMap(s, key.Address, StorageDomainContract, fault)
        storageMap == s1.ret
    IN  IF s1.status # "ok" \/ s1.overflow THEN s1
        ELSE IF storable = NilStorable
        THEN WriteValue(s1, storageMap, key.Key, NilValue)
        ELSE LET s2 == StoredValue(s1, storable)
             IN  IF s2.status # "ok" THEN s2
                 ELSE WriteValue(s2, storageMap, key.Key, NewSomeValueNonCopying(s2.ret))

\* the loop over the sorted contract updates; a panic ends it
RECURSIVE performContractUpdates(_, _, _)
performContractUpdates(s, updates, fault) ==
    IF Len(updates) = 0 \/ s.status # "ok" \/ s.overflow THEN s
    ELSE performContractUpdates(
             writeContractUpdate(s, Head(updates).Key, Head(updates).Storable, fault),
             Tail(updates), fault)

\* commitContractUpdates ending its loop after the first element in both branches
commitContractUpdates_FirstOnly(s, order, fault) ==
    IF Cardinality(DOMAIN s.contractUpdates) = 0 THEN s
    ELSE writeContractUpdate(s, order[1], s.contractUpdates[order[1]], fault)

\* order: the order in which the range over s.contractUpdates visits its keys
commitContractUpdates(s, order, fault) ==
    LET contractUpdateCount == Cardinality(DOMAIN s.contractUpdates)
    IN  IF contractUpdateCount <= 1
        THEN IF contractUpdateCount = 0 THEN s
             ELSE writeContractUpdate(s, order[1], s.contractUpdates[order[1]], fault)
        ELSE LET updates == [i \in 1..contractUpdateCount |->
                                ContractUpdate(order[i], s.contractUpdates[order[i]])]
             IN  performContractUpdates(s, SortContractUpdates(updates), fault)

(***************************************************************************)
(* Storage.Commit                                                          *)
(***************************************************************************)
RECURSIVE InsertWrite(_, _)
InsertWrite(write, sorted) ==
    IF Len(sorted) = 0 THEN <<write>>
    ELSE IF IsLess(write.storageKey, Head(sorted).storageKey) THEN <<write>> \o sorted
    ELSE <<Head(sorted)>> \o InsertWrite(write, Tail(sorted))

\* the writes left in the order of the range over the map
sortWrites_Unsorted(ws) == ws

\* sort.Slice by StorageKey.IsLess
RECURSIVE sortWrites(_)
sortWrites(ws) ==
    IF Len(ws) = 0 THEN ws
    ELSE InsertWrite(Head(ws), sortWrites(Tail(ws)))

\* the loop over the sorted writes going on after an error of the ledger
RECURSIVE performWrites_GoingOn(_, _, _)
performWrites_GoingOn(s, ws, fault) ==
    IF Len(ws) = 0 THEN s
    ELSE LET write == Head(ws)
             s1 == Emit(s, [op |-> "SetValue", key |-> write.storageKey, data |-> write.data])
         IN  IF fault = SetValueFault(write.storageKey)
             THEN performWrites_GoingOn([s1 EXCEPT !.status = "error", !.err = SetValueError],
                                        Tail(ws), fault)
             ELSE performWrites_GoingOn([s1 EXCEPT !.ledger[write.storageKey] = write.data],
                                        Tail(ws), fault)

\* the loop over the sorted writes; the first error of the ledger ends it
RECURSIVE performWrites(_, _, _)
performWrites(s, ws, fault) ==
    IF Len(ws) = 0 THEN s
    ELSE LET write == Head(ws)
             s1 == Emit(s, [op |-> "SetValue", key |-> write.storageKey, data |-> write.data])
         IN  IF fault = SetValueFault(write.storageKey)
             THEN [s1 EXCEPT !.status = "error", !.err = SetValueError]
             ELSE performWrites([s1 EXCEPT !.ledger[write.storageKey] = write.data],
                                Tail(ws), fault)

\* the writes of Commit with the slabs persisted before the ledger is written
commitWrites_PersistingFirst(s, order, fault) ==
    LET ws == [i \in 1..Len(order) |-> [storageKey |-> order[i], data |-> s.writes[order[i]]]]
    IN  performWrites(FastCommit(s), sortWrites(ws), fault)

\* order: the order in which the range over s.writes visits its keys
commitWrites(s, order, fault) ==
    LET ws == [i \in 1..Len(order) |-> [storageKey |-> order[i], data |-> s.writes[order[i]]]]
        s1 == performWrites(s, sortWrites(ws), fault)
    IN  IF s1.status # "ok" THEN s1
        ELSE FastCommit(s1)

\* Commit taking the writes as they were before it applied the contract updates
commitUpdates_WritesTakenFirst(s, commitContractUpdatesFlag, updateOrder, fault) ==
    IF commitContractUpdatesFlag
    THEN [commitContractUpdates(s, updateOrder, fault) EXCEPT !.writes = s.writes]
    ELSE s

\* Commit applying the contract updates whatever its flag
commitUpdates_Always(s, commitContractUpdatesFlag, updateOrder, fault) ==
    commitContractUpdates(s, updateOrder, fault)

\* Commit up to the range over s.writes
commitUpdates(s, commitContractUpdatesFlag, updateOrder, fault) ==
    IF commitContractUpdatesFlag THEN commitContractUpdates(s, updateOrder, fault) ELSE s

\* Commit from the range over s.writes on; a panic has ended it before
commitRest(s, writeOrder, fault) ==
    IF s.status # "ok" \/ s.overflow THEN s
    ELSE commitWrites(s, writeOrder, fault)

(***************************************************************************)
(* Storage.CheckHealth                                                     *)
(***************************************************************************)
\* atree.StorageID.Compare: by the address bytes, then by the index bytes
CompareStorageID(a, b) ==
    LET c == CompareBytes(a.Address, b.Address)
    IN  IF c # 0 THEN c ELSE CompareBytes(a.Index, b.Index)

RECURSIVE InsertStorageID(_, _)
InsertStorageID(id, sorted) ==
    IF Len(sorted) = 0 THEN <<id>>
    ELSE IF CompareStorageID(id, Head(sorted)) < 0 THEN <<id>> \o sorted
    ELSE <<Head(sorted)>> \o InsertStorageID(id, Tail(sorted))

\* sort.Slice by StorageID.Compare
RECURSIVE SortStorageIDs(_)
SortStorageIDs(ids) ==
    IF Len(ids) = 0 THEN ids
    ELSE InsertStorageID(Head(ids), SortStorageIDs(Tail(ids)))

\* atree.CheckStorageHealth: the root slabs of the store
CheckStorageHealth(s) == DOMAIN s.deltas \cup DOMAIN s.baseStorage

\* the root slabs which are not of the zero address
\* CheckHealth counting the root slabs of the zero address too
AccountRootSlabIDs_All(s) == CheckStorageHealth(s)

AccountRootSlabIDs(s) == {id \in CheckStorageHealth(s) : id.Address # ZeroAddress}

\* CheckHealth looking for unreferenced slabs before it looks at the storage maps
CheckHealth_GarbageFirst(s, mapOrder, rootOrder, fault) ==
    LET accountRootSlabIDs == AccountRootSlabIDs(s)
        storageMapStorageIDs ==
            SortStorageIDs([i \in 1..Len(mapOrder) |-> s.storageMaps[mapOrder[i]].root])
        missing == SelectSeq(storageMapStorageIDs, LAMBDA id : id \notin accountRootSlabIDs)
        found == {storageMapStorageIDs[i] : i \in 1..Len(storageMapStorageIDs)}
        unreferencedRootSlabIDs == SelectSeq(rootOrder, LAMBDA id : id \notin found)
    IN  IF fault = CheckStorageHealthFault
        THEN [s EXCEPT !.status = "error", !.err = CheckStorageHealthError]
        ELSE IF Len(unreferencedRootSlabIDs) > 0
        THEN [s EXCEPT !.status = "error",
                       !.err = SlabsNotReferenced(SortStorageIDs(unreferencedRootSlabIDs))]
        ELSE IF Len(missing) > 0
        THEN [s EXCEPT !.status = "error", !.err = PointsToNonExistingSlab(Head(missing))]
        ELSE s

\* CheckHealth listing the unreferenced slabs in the order of the map range
CheckHealth_UnsortedList(s, mapOrder, rootOrder, fault) ==
    LET accountRootSlabIDs == AccountRootSlabIDs(s)
        storageMapStorageIDs ==
            SortStorageIDs([i \in 1..Len(mapOrder) |-> s.storageMaps[mapOrder[i]].root])
        missing == SelectSeq(storageMapStorageIDs, LAMBDA id : id \notin accountRootSlabIDs)
        found == {storageMapStorageIDs[i] : i \in 1..Len(storageMapStorageIDs)}
        unreferencedRootSlabIDs == SelectSeq(rootOrder, LAMBDA id : id \notin found)
    IN  IF fault = CheckStorageHealthFault
        THEN [s EXCEPT !.status = "error", !.err = CheckStorageHealthError]
        ELSE IF Len(missing) > 0
        THEN [s EXCEPT !.status = "error", !.err = PointsToNonExistingSlab(Head(missing))]
        ELSE IF Cardinality(accountRootSlabIDs) > Cardinality(found)
        THEN [s EXCEPT !.status = "error", !.err = SlabsNotReferenced(unreferencedRootSlabIDs)]
        ELSE s

\* CheckHealth dropping from the cache the storage maps it finds dangling
CheckHealth_Repairing(s, mapOrder, rootOrder, fault) ==
    LET accountRootSlabIDs == AccountRootSlabIDs(s)
        storageMapStorageIDs ==
            SortStorageIDs([i \in 1..Len(mapOrder) |-> s.storageMaps[mapOrder[i]].root])
        missing == SelectSeq(storageMapStorageIDs, LAMBDA id : id \notin accountRootSlabIDs)
        found == {storageMapStorageIDs[i] : i \in 1..Len(storageMapStorageIDs)}
        unreferencedRootSlabIDs == SelectSeq(rootOrder, LAMBDA id : id \notin found)
        kept == {k \in DOMAIN s.storageMaps : s.storageMaps[k].root \in accountRootSlabIDs}
    IN  IF fault = CheckStorageHealthFault
        THEN [s EXCEPT !.status = "error", !.err = CheckStorageHealthError]
        ELSE IF Len(missing) > 0
        THEN [s EXCEPT !.status = "error", !.err = PointsToNonExistingSlab(Head(missing)),
                       !.storageMaps = [k \in kept |-> @[k]]]
        ELSE IF Cardinality(accountRootSlabIDs) > Cardinality(found)
        THEN [s EXCEPT !.status = "error",
                       !.err = SlabsNotReferenced(SortStorageIDs(unreferencedRootSlabIDs))]
        ELSE s

\* mapOrder, rootOrder: the orders in which the ranges over s.storageMaps and
\* over accountRootSlabIDs visit their keys; fault: whether the slab storage
\* reports an error of its own
CheckHealth(s, mapOrder, rootOrder, fault) ==
    LET accountRootSlabIDs == AccountRootSlabIDs(s)
        storageMapStorageIDs ==
            SortStorageIDs([i \in 1..Len(mapOrder) |-> s.storageMaps[mapOrder[i]].root])
        missing == SelectSeq(storageMapStorageIDs, LAMBDA id : id \notin accountRootSlabIDs)
        found == {storageMapStorageIDs[i] : i \in 1..Len(storageMapStorageIDs)}
        unreferencedRootSlabIDs == SelectSeq(rootOrder, LAMBDA id : id \notin found)
    IN  IF fault = CheckStorageHealthFault
        THEN [s EXCEPT !.status = "error", !.err = CheckStorageHealthError]
        ELSE IF Len(missing) > 0
        THEN [s EXCEPT !.status = "error", !.err = PointsToNonExistingSlab(Head(missing))]
        ELSE IF Cardinality(accountRootSlabIDs) > Cardinality(found)
        THEN [s EXCEPT !.status = "error",
                       !.err = SlabsNotReferenced(SortStorageIDs(unreferencedRootSlabIDs))]
        ELSE s

(***************************************************************************)
(* NewStorage                                                              *)
(***************************************************************************)
\* a new engine over the ledger and the persisted slabs of s
NewStorage(s) ==
    [s EXCEPT !.deltas = EmptyMap, !.writes = EmptyMap, !.storageMaps = EmptyMap,
              !.contractUpdates = EmptyMap, !.handed = EmptyMap,
              !.events = <<>>, !.status = "ok", !.err = NoError, !.ret = NoStorageMap]

(***************************************************************************)
(* What the operations can do in a state of the engine, over the faults   *)
(* of the ledger and the orders of the ranges over the Go maps.            *)
(***************************************************************************)
\* the engine s when its next operation starts
Ready(s) == [s EXCEPT !.events = <<>>, !.status = "ok", !.err = NoError, !.ret = NoStorageMap]

\* the faults of the ledger a GetStorageMap for the key can meet
GetStorageMapFaults(s, key) ==
    IF key \in DOMAIN s.storageMaps \/ key \in DOMAIN s.writes THEN {NoFault}
    ELSE {NoFault, GetValueFault(key)}

GetStorageMapOutcomes(s, key) ==
    {GetStorageMap(Ready(s), key.Address, key.Key, fault) : fault \in GetStorageMapFaults(s, key)}

\* the "contract" storage maps a Commit of the contract updates resolves
ContractMapKeys(s) ==
    {StorageKey(k.Address, StorageDomainContract) : k \in DOMAIN s.contractUpdates}

\* the faults of the ledger a Commit can meet
CommitFaults(s, flag) ==
    {NoFault}
        \cup {SetValueFault(k) : k \in DOMAIN s.writes}
        \cup (IF flag
              THEN UNION {{GetValueFault(k), SetValueFault(k)} :
                             k \in ContractMapKeys(s) \ (DOMAIN s.storageMaps \cup DOMAIN s.writes)}
              ELSE {})

\* the runs of Commit: the fault of the ledger and the engine after it
CommitRuns(s, flag) ==
    UNION {
        UNION {
            LET s1 == commitUpdates(Ready(s), flag, updateOrder, fault)
            IN  {[fault |-> fault, out |-> commitRest(s1, writeOrder, fault)] :
                    writeOrder \in Orders(DOMAIN s1.writes)} :
            updateOrder \in Orders(DOMAIN s.contractUpdates)} :
        fault \in CommitFaults(s, flag)}

CommitOutcomes(s, flag) == {run.out : run \in CommitRuns(s, flag)}

\* the runs of CheckHealth: the fault of the slab storage and the engine after it
CheckHealthRuns(s) ==
    {[fault |-> fault, out |-> CheckHealth(Ready(s), mapOrder, rootOrder, fault)] :
        mapOrder \in Orders(DOMAIN s.storageMaps),
        rootOrder \in Orders(AccountRootSlabIDs(s)),
        fault \in {NoFault, CheckStorageHealthFault}}

CheckHealthOutcomes(s) == {run.out : run \in CheckHealthRuns(s)}

(***************************************************************************)
(* ParseLiteral: a literal of the language parsed against an expected      *)
(* type. The code is a sequence of tokens.                                 *)
(***************************************************************************)
PathTypes == {"Path", "StoragePath", "CapabilityPath", "PublicPath", "PrivatePath"}

LiteralTypes == PathTypes \cup {"String", "Bool"}

Identifiers == {"foo", "bar", "baz"}

PathDomains == {"storage", "private", "public", "account"}

\* the codes given to ParseLiteral: paths, a path cut short, and other literals
Codes ==
    {<<"/", d, "/", i>> : d \in PathDomains, i \in Identifiers}
        \cup {<<"/", "storage">>, <<"true">>, <<"quote", "hello", "quote">>}

\* the values ParseLiteral returns, and Go's nil
NilLiteral == [kind |-> "nil", Domain |-> "", Identifier |-> "", Text |-> ""]

Path(domain, identifier) ==
    [kind |-> "Path", Domain |-> domain, Identifier |-> identifier, Text |-> ""]

String(text) == [kind |-> "String", Domain |-> "", Identifier |-> "", Text |-> text]

NewBool(text) == [kind |-> "Bool", Domain |-> "", Identifier |-> "", Text |-> text]

Parsed(value) == [value |-> value, err |-> "nil"]

Rejected(err) == [value |-> NilLiteral, err |-> err]

\* parser.ParseExpression: the expression of the code, or an error
ParseExpression(code) ==
    IF Len(code) = 4 /\ code[1] = "/" /\ code[3] = "/"
    THEN [kind |-> "PathExpression", Domain |-> code[2], Identifier |-> code[4], Text |-> ""]
    ELSE IF code = <<"true">> \/ code = <<"false">>
    THEN [kind |-> "BoolExpression", Domain |-> "", Identifier |-> "", Text |-> code[1]]
    ELSE IF Len(code) = 3 /\ code[1] = "quote" /\ code[3] = "quote"
    THEN [kind |-> "StringExpression", Domain |-> "", Identifier |-> "", Text |-> code[2]]
    ELSE [kind |-> "error", Domain |-> "", Identifier |-> "", Text |-> ""]

\* sema.CheckPathLiteral: the type of a path of the domain, "" for no domain
CheckPathLiteral(domain) ==
    CASE domain = "storage" -> "StoragePath"
      [] domain = "private" -> "PrivatePath"
      [] domain = "public" -> "PublicPath"
      [] OTHER -> ""

\* the types a type of the model is a subtype of
SuperTypes(ty) ==
    CASE ty = "StoragePath" -> {"StoragePath", "Path"}
      [] ty = "PrivatePath" -> {"PrivatePath", "CapabilityPath", "Path"}
      [] ty = "PublicPath" -> {"PublicPath", "CapabilityPath", "Path"}
      [] ty = "CapabilityPath" -> {"CapabilityPath", "Path"}
      [] OTHER -> {ty}

\* sema.IsSubType
IsSubType(subType, superType) == superType \in SuperTypes(subType)

\* pathLiteralValue accepting a path only at its own type
pathLiteralValue_SameType(expression, ty) ==
    IF expression.kind # "PathExpression" THEN Rejected("LiteralExpressionTypeError")
    ELSE LET pathType == CheckPathLiteral(expression.Domain)
         IN  IF pathType = "" THEN Rejected("InvalidLiteralError")
             ELSE IF pathType # ty THEN Rejected("path literal type is not subtype")
             ELSE Parsed(Path(expression.Domain, expression.Identifier))

pathLiteralValue(expression, ty) ==
    IF expression.kind # "PathExpression" THEN Rejected("LiteralExpressionTypeError")
    ELSE LET pathType == CheckPathLiteral(expression.Domain)
         IN  IF pathType = "" THEN Rejected("InvalidLiteralError")
             ELSE IF ~IsSubType(pathType, ty) THEN Rejected("path literal type is not subtype")
             ELSE Parsed(Path(expression.Domain, expression.Identifier))

\* LiteralValue: the value of the expression at the expected type
LiteralValue(expression, ty) ==
    CASE ty = "String" ->
             IF expression.kind = "StringExpression" THEN Parsed(String(expression.Text))
             ELSE Rejected("LiteralExpressionTypeError")
      [] ty = "Bool" ->
             IF expression.kind = "BoolExpression" THEN Parsed(NewBool(expression.Text))
             ELSE Rejected("LiteralExpressionTypeError")
      [] ty \in PathTypes -> pathLiteralValue(expression, ty)

ParseLiteral(code, ty) ==
    LET expression == ParseExpression(code)
    IN  IF expression.kind = "error" THEN Rejected("ParsingError")
        ELSE LiteralValue(expression, ty)

\* the cases of TestLiteralValue for strings, booleans and paths
TestLiteralValue ==
    {[code |-> <<"quote", "hello", "quote">>, ty |-> "String", want |-> Parsed(String("hello"))],
     [code |-> <<"true">>, ty |-> "String", want |-> Rejected("")],
     [code |-> <<"true">>, ty |-> "Bool", want |-> Parsed(NewBool("true"))],
     [code |-> <<"quote", "hello", "quote">>, ty |-> "Bool", want |-> Rejected("")],
     [code |-> <<"/", "storage", "/", "foo">>, ty |-> "Path", want |-> Parsed(Path("storage", "foo"))],
     [code |-> <<"/", "private", "/", "foo">>, ty |-> "Path", want |-> Parsed(Path("private", "foo"))],
     [code |-> <<"/", "public", "/", "foo">>, ty |-> "Path", want |-> Parsed(Path("public", "foo"))],
     [code |-> <<"true">>, ty |-> "Path", want |-> Rejected("")],
     [code |-> <<"/", "storage", "/", "foo">>, ty |-> "StoragePath",
      want |-> Parsed(Path("storage", "foo"))],
     [code |-> <<"/", "private", "/", "foo">>, ty |-> "StoragePath", want |-> Rejected("")],
     [code |-> <<"/", "public", "/", "foo">>, ty |-> "StoragePath", want |-> Rejected("")],
     [code |-> <<"true">>, ty |-> "StoragePath", want |-> Rejected("")],
     [code |-> <<"/", "private", "/", "foo">>, ty |-> "CapabilityPath",
      want |-> Parsed(Path("private", "foo"))],
     [code |-> <<"/", "public", "/", "foo">>, ty |-> "CapabilityPath",
      want |-> Parsed(Path("public", "foo"))],
     [code |-> <<"/", "storage", "/", "foo">>, ty |-> "CapabilityPath", want |-> Rejected("")],
     [code |-> <<"true">>, ty |-> "CapabilityPath", want |-> Rejected("")],
     [code |-> <<"/", "public", "/", "foo">>, ty |-> "PublicPath",
      want |-> Parsed(Path("public", "foo"))],
     [code |-> <<"/", "private", "/", "foo">>, ty |-> "PublicPath", want |-> Rejected("")],
     [code |-> <<"/", "storage", "/", "foo">>, ty |-> "PublicPath", want |-> Rejected("")],
     [code |-> <<"true">>, ty |-> "PublicPath", want |-> Rejected("")],
     [code |-> <<"/", "private", "/", "foo">>, ty |-> "PrivatePath",
      want |-> Parsed(Path("private", "foo"))],
     [code |-> <<"/", "public", "/", "foo">>, ty |-> "PrivatePath", want |-> Rejected("")],
     [code |-> <<"/", "storage", "/", "foo">>, ty |-> "PrivatePath", want |-> Rejected("")],
     [code |-> <<"true">>, ty |-> "PrivatePath", want |-> Rejected("")]}

\* no call of ParseLiteral yet
NoParse == [code |-> <<>>, ty |-> "", value |-> NilLiteral, err |-> "nil"]

(***************************************************************************)
(* The operations of the engine as actions.                                *)
(***************************************************************************)
\* the state of the engine and of its backend after an operation
Becomes(s) ==
    /\ ~s.overflow
    /\ ledger' = s.ledger
    /\ nextIndex' = s.nextIndex
    /\ baseStorage' = s.baseStorage
    /\ deltas' = s.deltas
    /\ writes' = s.writes
    /\ storageMaps' = s.storageMaps
    /\ contractUpdates' = s.contractUpdates
    /\ handed' = s.handed
    /\ lastError' = s.err
    /\ parsed' = parsed

\* registers of a wrong length, which some other writer left in the ledger
BadRegisters ==
    (StorageKey(ZeroAddress, "public") :> <<0, 0, 0, 0, 0, 0, 0, 1, 0>>)
        @@ (StorageKey(Account1, "public") :> <<0, 0, 0, 0, 0, 0, 1>>)

LedgerKeys == {StorageKey(a, d) : a \in Addresses, d \in Domains}

Init ==
    /\ ledger = [k \in LedgerKeys |-> IF k \in DOMAIN BadRegisters THEN BadRegisters[k] ELSE <<>>]
    /\ nextIndex = [a \in Addresses |-> 0]
    /\ baseStorage = EmptyMap
    /\ deltas = EmptyMap
    /\ writes = EmptyMap
    /\ storageMaps = EmptyMap
    /\ contractUpdates = EmptyMap
    /\ nextValue = 1
    /\ engines = 1
    /\ handed = EmptyMap
    /\ lastError = NoError
    /\ parsed = NoParse

NewStorageCall ==
    /\ engines < MaxEngines
    /\ engines' = engines + 1
    /\ Becomes(NewStorage(Engine))
    /\ UNCHANGED nextValue

GetStorageMapCall(keys) ==
    \E key \in keys :
        \E s \in GetStorageMapOutcomes(Engine, key) :
            /\ Becomes(s)
            /\ UNCHANGED <<nextValue, engines>>

\* the contract values a recordContractUpdate can be given in the current state
Contracts == {NilContract} \cup {v \in {nextValue} : v <= MaxValues}

recordContractUpdateCall(keys) ==
    \E key \in keys, contract \in Contracts :
        /\ Becomes(recordContractUpdate(Engine, key.Address, key.Key, contract))
        /\ nextValue' = IF contract = NilContract THEN nextValue ELSE nextValue + 1
        /\ UNCHANGED engines

CommitCall ==
    \E flag \in BOOLEAN :
        \E s \in CommitOutcomes(Engine, flag) :
            /\ Becomes(s)
            /\ UNCHANGED <<nextValue, engines>>

CheckHealthCall ==
    \E s \in CheckHealthOutcomes(Engine) :
        /\ Becomes(s)
        /\ UNCHANGED <<nextValue, engines>>

StoreTemporarySlabCall ==
    /\ Becomes(StoreTemporarySlab(Ready(Engine)))
    /\ UNCHANGED <<nextValue, engines>>

\* the root slabs of the zero address which are the root of no cached storage map
TemporarySlabs(s) ==
    {id \in CheckStorageHealth(s) :
        /\ id.Address = ZeroAddress
        /\ \A k \in DOMAIN s.storageMaps : s.storageMaps[k].root # id}

RemoveTemporarySlabCall ==
    \E id \in TemporarySlabs(Engine) :
        /\ Becomes(RemoveSlab(Ready(Engine), id))
        /\ UNCHANGED <<nextValue, engines>>

ParseLiteralCall ==
    \E code \in Codes, ty \in LiteralTypes :
        LET result == ParseLiteral(code, ty)
        IN  /\ parsed' = [code |-> code, ty |-> ty, value |-> result.value, err |-> result.err]
            /\ UNCHANGED <<ledger, nextIndex, baseStorage, deltas, writes, storageMaps,
                           contractUpdates, nextValue, engines, handed, lastError>>

(***************************************************************************)
(* Specifications.                                                         *)
(***************************************************************************)
\* the keys of the storage maps the engine is asked for
MapKeys ==
    {StorageKey(ZeroAddress, "storage"), StorageKey(Account1, StorageDomainContract),
     StorageKey(Account1, "storage")} \cup DOMAIN BadRegisters

\* storage maps over engines: no contract is deployed
NextMaps ==
    \/ NewStorageCall
    \/ GetStorageMapCall(MapKeys)
    \/ CommitCall
    \/ CheckHealthCall

SpecMaps == Init /\ [][NextMaps]_vars

\* the keys of the contracts deployed or removed
ContractKeys == {StorageKey(ZeroAddress, "B"), StorageKey(Account1, "A")}

\* the storage maps the program reads while contracts are deployed
ContractRunKeys ==
    {StorageKey(ZeroAddress, StorageDomainContract), StorageKey(Account1, StorageDomainContract)}

\* contract updates in one engine
NextContracts ==
    \/ GetStorageMapCall(ContractRunKeys)
    \/ recordContractUpdateCall(ContractKeys)
    \/ CommitCall
    \/ CheckHealthCall

SpecContracts == Init /\ [][NextContracts]_vars

\* the keys of contracts of which two share an address
ContractNameKeys ==
    {StorageKey(ZeroAddress, "B"), StorageKey(Account1, "A"), StorageKey(Account1, "B")}

\* contract updates of several names of an address, committed
NextNames ==
    \/ recordContractUpdateCall(ContractNameKeys)
    \/ CommitCall

SpecNames == Init /\ [][NextNames]_vars

HealthKeys == {StorageKey(Account1, StorageDomainContract), StorageKey(Account1, "storage")}

\* storage maps of an account next to temporary slabs of the interpreter
NextHealth ==
    \/ NewStorageCall
    \/ GetStorageMapCall(HealthKeys)
    \/ StoreTemporarySlabCall
    \/ RemoveTemporarySlabCall
    \/ CommitCall
    \/ CheckHealthCall

SpecHealth == Init /\ [][NextHealth]_vars

\* the first engine over a ledger with no register and a slab storage with no slab
InitEmpty ==
    /\ ledger = [k \in LedgerKeys |-> <<>>]
    /\ nextIndex = [a \in Addresses |-> 0]
    /\ baseStorage = EmptyMap
    /\ deltas = EmptyMap
    /\ writes = EmptyMap
    /\ storageMaps = EmptyMap
    /\ contractUpdates = EmptyMap
    /\ nextValue = 1
    /\ engines = 1
    /\ handed = EmptyMap
    /\ lastError = NoError
    /\ parsed = NoParse

AccountKeys == {StorageKey(Account1, d) : d \in Domains}

\* one engine from an empty ledger: storage maps of an account and Commit
NextAccount ==
    \/ GetStorageMapCall(AccountKeys)
    \/ CommitCall
    \/ CheckHealthCall

SpecAccount == InitEmpty /\ [][NextAccount]_vars

\* literals parsed against expected types
NextLiterals == ParseLiteralCall

SpecLiterals == Init /\ [][NextLiterals]_vars

(***************************************************************************)
(* Properties.                                                             *)
(***************************************************************************)
\* the events of an operation which are calls of the given kind
Calls(events, op) == SelectSeq(events, LAMBDA e : e.op = op)

\* the order of storage keys: address bytes first, then the bytes of the string
KeyBefore(a, b) ==
    \/ CompareBytes(a.Address, b.Address) < 0
    \/ a.Address = b.Address /\ CompareBytes(StringBytes(a.Key), StringBytes(b.Key)) < 0

\* the keys of a set in ascending order
KeysInOrder(keys) ==
    CHOOSE order \in Orders(keys) :
        \A i, j \in 1..Len(order) : i < j => KeyBefore(order[i], order[j])

\* no entry of a name in a storage map
Missing == [some |-> FALSE, value |-> -1]

\* what a read of the "contract" storage map of the engine finds for a contract key
ContractEntry(s, key) ==
    LET mapKey == StorageKey(key.Address, StorageDomainContract)
        root == s.storageMaps[mapKey].root
    IN  IF mapKey \in DOMAIN s.storageMaps /\ SlabExists(s, root)
           /\ key.Key \in DOMAIN RetrieveSlab(s, root)
        THEN RetrieveSlab(s, root)[key.Key]
        ELSE Missing

\* the optional value a pending Storable stands for
Pending(storable) ==
    IF storable.isNil THEN NilValue ELSE NewSomeValueNonCopying(storable.slab)

\* C1: for every key, all the GetStorageMap calls of an engine so far have
\* returned one and the same storage map object, and a further call in the
\* current state returns that object again, whatever happened in between
C1_SameStorageMap ==
    \A key \in DOMAIN handed :
        /\ Cardinality(handed[key]) = 1
        /\ \A s \in GetStorageMapOutcomes(Engine, key) :
               s.status = "ok" /\ s.ret \in handed[key]

\* a storage map was returned, and since then it was committed, a contract
\* update was recorded and applied, and CheckHealth has run
C1_Witness ==
    /\ lastError.kind = "account storage map points to non-existing slab"
    /\ \E key \in DOMAIN handed :
           /\ key \in DOMAIN writes /\ ledger[key] = writes[key]
           /\ \E c \in DOMAIN contractUpdates : ContractEntry(Engine, c) # Missing

\* C2: every Commit calls SetValue in strictly ascending order of the storage
\* keys, whatever the order of the range over the writes, and a Commit which
\* succeeds has written every pending write
C2_WritesInKeyOrder ==
    \A flag \in BOOLEAN :
        \A s \in CommitOutcomes(Engine, flag) :
            LET sets == Calls(s.events, "SetValue")
            IN  /\ \A i, j \in 1..Len(sets) : i < j => KeyBefore(sets[i].key, sets[j].key)
                /\ s.status = "ok" => {sets[i].key : i \in 1..Len(sets)} = DOMAIN s.writes

\* a Commit has written three pending writes, of two addresses and two domains
C2_Witness ==
    /\ Cardinality(DOMAIN writes) = 3
    /\ \A key \in DOMAIN writes : ledger[key] = writes[key]
    /\ {StorageKey(ZeroAddress, "storage"), StorageKey(Account1, StorageDomainContract)}
           \subseteq DOMAIN writes

\* C3: recordContractUpdate leaves what the "contract" storage maps hold as it
\* was, and after a Commit of the contract updates the storage map holds, for
\* every pending update, the recorded value
C3_DeferredVisibility ==
    /\ \A key \in ContractKeys, contract \in Contracts :
           LET s == recordContractUpdate(Ready(Engine), key.Address, key.Key, contract)
           IN  /\ s.deltas = deltas /\ s.baseStorage = baseStorage
               /\ \A k \in ContractKeys : ContractEntry(s, k) = ContractEntry(Engine, k)
    /\ \A c \in CommitOutcomes(Engine, TRUE) :
           c.status # "panic" =>
               \A key \in DOMAIN contractUpdates :
                   ContractEntry(c, key) = Pending(contractUpdates[key])

\* two contracts are pending; one is in its storage map after a Commit, the
\* other was recorded after it and is not
C3_Witness ==
    \E k1, k2 \in DOMAIN contractUpdates :
        /\ ~contractUpdates[k1].isNil
        /\ ContractEntry(Engine, k1) = NewSomeValueNonCopying(contractUpdates[k1].slab)
        /\ ~contractUpdates[k2].isNil
        /\ ContractEntry(Engine, k2) = Missing

\* C4: every recordContractUpdate completes, and leaves the recorded value (the
\* nil Storable for a removal) in the buffer
C4_RecordCompletes ==
    \A key \in ContractKeys, contract \in Contracts :
        LET s == recordContractUpdate(Ready(Engine), key.Address, key.Key, contract)
        IN  /\ s.status = "ok"
            /\ key \in DOMAIN s.contractUpdates
            /\ s.contractUpdates[key] =
                   (IF contract = NilContract THEN NilStorable ELSE Storable(contract))

\* C5: after a recordContractUpdate of a removal the buffer has the nil
\* Storable at the key, and after a Commit of the contract updates the storage
\* map has an entry for the name which holds nil
C5_RemovalIsKept ==
    /\ \A key \in ContractKeys :
           LET s == recordContractUpdate(Ready(Engine), key.Address, key.Key, NilContract)
           IN  key \in DOMAIN s.contractUpdates /\ s.contractUpdates[key] = NilStorable
    /\ \A c \in CommitOutcomes(Engine, TRUE) :
           c.status # "panic" =>
               \A key \in DOMAIN contractUpdates :
                   contractUpdates[key] = NilStorable =>
                       ContractEntry(c, key) = NilValue /\ ContractEntry(c, key) # Missing

\* a removal is pending and its storage map holds nil for the name
C5_Witness ==
    \E key \in DOMAIN contractUpdates :
        contractUpdates[key] = NilStorable /\ ContractEntry(Engine, key) = NilValue

\* C6: a Commit of the contract updates which follows one that has applied
\* them writes none of them again
C6_UpdatesAppliedOnce ==
    \A c1 \in CommitOutcomes(Engine, TRUE) :
        c1.status # "panic" =>
            \A c2 \in CommitOutcomes(c1, TRUE) : Calls(c2.events, "WriteValue") = <<>>

\* C7: a Commit which follows a Commit that succeeded calls SetValue for none
\* of the keys the first one has written
C7_WritesFlushedOnce ==
    \A c1 \in CommitOutcomes(Engine, FALSE) :
        c1.status = "ok" =>
            \A c2 \in CommitOutcomes(c1, FALSE) : Calls(c2.events, "SetValue") = <<>>

\* C8: a Commit in which a SetValue fails returns that error; its SetValue
\* calls are the sorted pending writes up to the failing one, the earlier ones
\* stay in the ledger, and the slabs are not persisted
C8_FirstErrorEndsCommit ==
    \A flag \in BOOLEAN :
        \A run \in CommitRuns(Engine, flag) :
            LET s == run.out
                sets == Calls(s.events, "SetValue")
                n == Len(sets)
                sorted == KeysInOrder(DOMAIN s.writes)
            IN  (run.fault.op = "SetValue" /\ s.status # "panic") =>
                    /\ s.status = "error" /\ s.err = SetValueError
                    /\ n >= 1 /\ sets[n].key = run.fault.key
                    /\ \A i \in 1..n : sets[i].key = sorted[i] /\ sets[i].data = s.writes[sorted[i]]
                    /\ \A i \in 1..(n - 1) : s.ledger[sorted[i]] = s.writes[sorted[i]]
                    /\ \A i \in n..Len(sorted) : s.ledger[sorted[i]] = ledger[sorted[i]]
                    /\ Calls(s.events, "FastCommit") = <<>>
                    /\ s.baseStorage = baseStorage

\* a Commit failed at its second or a later write: an earlier write is in the
\* ledger, a later one is not, and the slab of the earlier one is not persisted
C8_Witness ==
    /\ lastError = SetValueError
    /\ \E k1, k2 \in DOMAIN writes :
           /\ KeyBefore(k1, k2)
           /\ ledger[k1] = writes[k1]
           /\ ledger[k2] = <<>>
           /\ storageMaps[k1].root \notin DOMAIN baseStorage

\* C9: after a Commit which succeeds, a new engine over the same ledger
\* resolves every storage map of the old engine to the same root, allocates
\* no root for it, and finds the contents the old engine had
C9_RoundTrip ==
    \A flag \in BOOLEAN :
        \A c \in CommitOutcomes(Engine, flag) :
            c.status = "ok" =>
                \A key \in DOMAIN c.storageMaps :
                    LET root == c.storageMaps[key].root
                        s == GetStorageMap(NewStorage(c), key.Address, key.Key, NoFault)
                    IN  /\ s.status = "ok"
                        /\ s.ret.root = root
                        /\ s.nextIndex = c.nextIndex
                        /\ Calls(s.events, "AllocateStorageIndex") = <<>>
                        /\ s.writes = EmptyMap
                        /\ SlabExists(c, root) =>
                               SlabExists(s, root) /\ RetrieveSlab(s, root) = RetrieveSlab(c, root)

\* a second engine has loaded a storage map which the first one has created
\* and committed
C9_Witness ==
    /\ engines = 2
    /\ \E key \in DOMAIN storageMaps :
           /\ key \notin DOMAIN writes
           /\ storageMaps[key].root \in DOMAIN baseStorage
           /\ storageMaps[key].root = StorageID(key.Address, ledger[key])

\* C10: a GetStorageMap for a key whose register is neither empty nor 8 bytes
\* long panics with the error of the invalid storage index, naming the domain
\* and both lengths, and caches nothing; no storage map is cached at such a key
C10_MalformedIndexRejected ==
    /\ \A key \in MapKeys :
           (/\ key \notin DOMAIN storageMaps
            /\ key \notin DOMAIN writes
            /\ Len(ledger[key]) \notin {0, storageIndexLength}) =>
               LET s == GetStorageMap(Ready(Engine), key.Address, key.Key, NoFault)
               IN  /\ s.status = "panic"
                   /\ s.err = InvalidStorageIndex(key.Key, storageIndexLength, Len(ledger[key]))
                   /\ s.storageMaps = storageMaps
                   /\ s.handed = handed
    /\ \A key \in DOMAIN storageMaps : Len(ledger[key]) \in {0, storageIndexLength}

\* a GetStorageMap has met a register of 7 bytes, with storage maps cached
C10_Witness ==
    /\ lastError = InvalidStorageIndex("public", storageIndexLength, 7)
    /\ storageMaps # EmptyMap

\* the roots of the cached storage maps of the engine
CachedRoots == {storageMaps[k].root : k \in DOMAIN storageMaps}

\* the root slabs of the store which are not of the zero address
AccountRooted ==
    {id \in DOMAIN deltas \cup DOMAIN baseStorage : id.Address # ZeroAddress}

\* C11: when the root of some cached storage map is no account root slab of the
\* store, every CheckHealth for which the store reports its roots fails with the
\* error of the storage map pointing to a non-existing slab, naming the
\* smallest such root, also when slabs are unreferenced
C11_DanglingReportedFirst ==
    LET dangling == CachedRoots \ AccountRooted
    IN  dangling # {} =>
            \A run \in CheckHealthRuns(Engine) :
                run.fault = NoFault =>
                    /\ run.out.status = "error"
                    /\ run.out.err.kind = "account storage map points to non-existing slab"
                    /\ Len(run.out.err.ids) = 1
                    /\ run.out.err.ids[1] \in dangling
                    /\ \A other \in dangling :
                           CompareStorageID(run.out.err.ids[1], other) <= 0

\* CheckHealth has reported a dangling storage map while two are dangling and
\* an account root slab is unreferenced
C11_Witness ==
    /\ lastError.kind = "account storage map points to non-existing slab"
    /\ Cardinality(CachedRoots \ AccountRooted) >= 2
    /\ AccountRooted \ CachedRoots # {}

\* C12: when every cached storage map has its root among the account root
\* slabs of the store, a CheckHealth for which the store reports its roots
\* fails, if some account root slab is the root of no cached storage map, with
\* the error of the unreferenced slabs, listing exactly those in ascending
\* order, and succeeds if there is none
C12_UnreferencedListed ==
    LET unreferenced == AccountRooted \ CachedRoots
    IN  CachedRoots \subseteq AccountRooted =>
            \A run \in CheckHealthRuns(Engine) :
                run.fault = NoFault =>
                    LET ids == run.out.err.ids
                    IN  IF unreferenced # {}
                        THEN /\ run.out.status = "error"
                             /\ run.out.err.kind = "slabs not referenced from account storage"
                             /\ {ids[i] : i \in 1..Len(ids)} = unreferenced
                             /\ \A i, j \in 1..Len(ids) :
                                    i < j => CompareStorageID(ids[i], ids[j]) < 0
                        ELSE run.out.status = "ok" /\ run.out.err = NoError

\* CheckHealth has listed two unreferenced account root slabs
C12_Witness ==
    /\ lastError.kind = "slabs not referenced from account storage"
    /\ Len(lastError.ids) = 2
    /\ CachedRoots \subseteq AccountRooted

\* C13: no GetStorageMap changes the ledger or calls SetValue; one which finds
\* no register for its key allocates one new root slab and buffers the index of
\* that root as the pending write of the key, and nothing else; a Commit which
\* succeeds is what writes the pending writes to the ledger
C13_GetStorageMapBuffers ==
    /\ \A key \in MapKeys \cup ContractRunKeys :
           \A s \in GetStorageMapOutcomes(Engine, key) :
               ~s.overflow =>
                   /\ s.ledger = ledger
                   /\ Calls(s.events, "SetValue") = <<>>
                   /\ (/\ key \notin DOMAIN storageMaps
                       /\ key \notin DOMAIN writes
                       /\ ledger[key] = <<>>
                       /\ s.status = "ok") =>
                          LET root == s.ret.root
                          IN  /\ Len(Calls(s.events, "AllocateStorageIndex")) = 1
                              /\ root.Address = key.Address
                              /\ ~SlabExists(Engine, root) /\ root \in DOMAIN s.deltas
                              /\ DOMAIN s.writes = DOMAIN writes \cup {key}
                              /\ s.writes[key] = root.Index
                              /\ \A k \in DOMAIN writes : s.writes[k] = writes[k]
    /\ \A flag \in BOOLEAN :
           \A c \in CommitOutcomes(Engine, flag) :
               c.status = "ok" => \A k \in DOMAIN writes : c.ledger[k] = writes[k]

\* a GetStorageMap has made a storage map whose index is pending and not in
\* the ledger, next to one which a Commit has written
C13_Witness ==
    \E k1, k2 \in DOMAIN writes :
        /\ ledger[k1] = <<>> /\ storageMaps[k1].root \in DOMAIN deltas
        /\ ledger[k2] = writes[k2]
        /\ lastError = NoError

\* C14: in every Commit, every write of a contract update into a storage map
\* comes before the first SetValue, and every SetValue and every such write
\* comes before the one FastCommit, which is the last step
C14_CommitStepsInOrder ==
    \A flag \in BOOLEAN :
        \A c \in CommitOutcomes(Engine, flag) :
            LET e == c.events
            IN  /\ \A i, j \in 1..Len(e) :
                       (e[i].op = "WriteValue" /\ e[j].op = "SetValue") => i < j
                /\ \A i, j \in 1..Len(e) :
                       (e[i].op \in {"WriteValue", "SetValue", "GetValue", "AllocateStorageIndex"}
                            /\ e[j].op = "FastCommit") => i < j
                /\ Len(Calls(e, "FastCommit")) <= 1
                /\ c.status = "ok" => Len(e) >= 1 /\ e[Len(e)].op = "FastCommit"

\* a Commit has applied a contract update, written the register of its storage
\* map and persisted the slab with the entry
C14_Witness ==
    \E key \in DOMAIN contractUpdates :
        LET mapKey == StorageKey(key.Address, StorageDomainContract)
        IN  /\ mapKey \in DOMAIN storageMaps /\ mapKey \in DOMAIN writes
            /\ ledger[mapKey] = writes[mapKey]
            /\ storageMaps[mapKey].root \in DOMAIN baseStorage
            /\ key.Key \in DOMAIN baseStorage[storageMaps[mapKey].root]

\* the contract keys a Commit writes into storage maps, in the order of the writes
WrittenContractKeys(events) ==
    LET ws == Calls(events, "WriteValue")
    IN  [i \in 1..Len(ws) |-> StorageKey(ws[i].id.Address, ws[i].name)]

\* C15: the writes of contract updates a Commit makes are in strictly ascending
\* order of their storage keys and, like the allocations of the storage maps
\* they make, the same for every order of the range over the buffer; a Commit
\* which no panic ends writes every pending update
C15_UpdatesInKeyOrder ==
    /\ \A r1, r2 \in CommitRuns(Engine, TRUE) :
           r1.fault = r2.fault =>
               /\ Calls(r1.out.events, "WriteValue") = Calls(r2.out.events, "WriteValue")
               /\ Calls(r1.out.events, "AllocateStorageIndex")
                      = Calls(r2.out.events, "AllocateStorageIndex")
    /\ \A r \in CommitRuns(Engine, TRUE) :
           LET keys == WrittenContractKeys(r.out.events)
           IN  /\ \A i, j \in 1..Len(keys) : i < j => KeyBefore(keys[i], keys[j])
               /\ r.out.status # "panic" =>
                      {keys[i] : i \in 1..Len(keys)} = DOMAIN contractUpdates

\* a Commit has applied three pending contract updates, of two addresses and
\* two names
C15_Witness ==
    /\ Cardinality(DOMAIN contractUpdates) = 3
    /\ \A key \in DOMAIN contractUpdates :
           /\ ContractEntry(Engine, key) = Pending(contractUpdates[key])
           /\ ledger[StorageKey(key.Address, StorageDomainContract)] # <<>>

\* C16: every CheckHealth, whether it succeeds or returns an error, leaves the
\* cached storage maps, the pending writes, the pending contract updates and
\* the ledger as they were, and the slabs and the allocator as well
C16_CheckHealthReadsOnly ==
    \A run \in CheckHealthRuns(Engine) :
        LET s == run.out
        IN  /\ s.storageMaps = storageMaps
            /\ s.writes = writes
            /\ s.contractUpdates = contractUpdates
            /\ s.ledger = ledger
            /\ s.deltas = deltas /\ s.baseStorage = baseStorage
            /\ s.nextIndex = nextIndex
            /\ s.status \in {"ok", "error"}

\* CheckHealth has returned an error of its own in an engine with cached
\* storage maps, pending writes and pending contract updates
C16_Witness ==
    /\ lastError.kind \in {"account storage map points to non-existing slab",
                           "slabs not referenced from account storage"}
    /\ storageMaps # EmptyMap
    /\ writes # EmptyMap
    /\ contractUpdates # EmptyMap

\* C17: a GetStorageMap which panics, on an error of GetValue or on a register
\* of an invalid length, leaves the engine as it was: nothing is cached or
\* pending for the key and no slab is allocated; a further GetStorageMap for
\* the key asks the ledger again, and succeeds if the ledger then answers with
\* nothing or with 8 bytes
C17_FailureLeavesNothing ==
    \A key \in MapKeys \cup ContractRunKeys :
        \A s \in GetStorageMapOutcomes(Engine, key) :
            s.status # "ok" =>
                /\ s.status = "panic"
                /\ s.err \in {GetValueError,
                              InvalidStorageIndex(key.Key, storageIndexLength, Len(ledger[key]))}
                /\ s.storageMaps = storageMaps /\ key \notin DOMAIN s.storageMaps
                /\ s.writes = writes /\ key \notin DOMAIN s.writes
                /\ s.handed = handed
                /\ s.deltas = deltas /\ s.nextIndex = nextIndex /\ s.ledger = ledger
                /\ \A again \in GetStorageMapOutcomes(s, key) :
                       /\ Len(Calls(again.events, "GetValue")) = 1
                       /\ Calls(again.events, "GetValue")[1].key = key
                /\ LET again == GetStorageMap(Ready(s), key.Address, key.Key, NoFault)
                   IN  (Len(ledger[key]) \in {0, storageIndexLength} /\ ~again.overflow) =>
                           again.status = "ok" /\ key \in DOMAIN again.storageMaps

\* a GetValue has failed for a key whose register holds a storage index, in an
\* engine which has other storage maps cached
C17_Witness ==
    /\ lastError = GetValueError
    /\ storageMaps # EmptyMap
    /\ \E key \in MapKeys :
           key \notin DOMAIN storageMaps /\ Len(ledger[key]) = storageIndexLength

\* the domains the claim allows for an expected path type
AllowedDomains(ty) ==
    CASE ty = "Path" -> {"storage", "private", "public"}
      [] ty = "StoragePath" -> {"storage"}
      [] ty = "CapabilityPath" -> {"private", "public"}
      [] ty = "PublicPath" -> {"public"}
      [] ty = "PrivatePath" -> {"private"}
      [] OTHER -> {}

\* the last call of ParseLiteral was given a path literal of one of the three domains
IsPathLiteral(code) ==
    /\ Len(code) = 4
    /\ code[1] = "/"
    /\ code[3] = "/"
    /\ code[2] \in {"storage", "private", "public"}

C19_FlagOffAppliesNothing ==
    \A run \in CommitRuns(Engine, FALSE) :
        LET c == run.out
            e == c.events
        IN  /\ Len(Calls(e, "WriteValue")) = 0
            /\ Len(Calls(e, "GetValue")) = 0
            /\ Len(Calls(e, "AllocateStorageIndex")) = 0
            /\ c.contractUpdates = contractUpdates
            /\ c.storageMaps = storageMaps
            /\ \A key \in DOMAIN contractUpdates :
                   ContractEntry(c, key) = ContractEntry(Engine, key)
            /\ c.status # "panic"
            /\ run.fault = NoFault =>
                   /\ c.status = "ok"
                   /\ {w.key : w \in {Calls(e, "SetValue")[i] :
                                         i \in 1..Len(Calls(e, "SetValue"))}} = DOMAIN writes
                   /\ \A k \in DOMAIN writes : c.ledger[k] = writes[k]
                   /\ Len(Calls(e, "FastCommit")) = 1
                   /\ DOMAIN c.deltas = {}
                   /\ \A id \in DOMAIN deltas :
                          id \in DOMAIN c.baseStorage /\ c.baseStorage[id] = deltas[id]
            /\ run.fault # NoFault => Len(Calls(e, "SetValue")) >= 1

\* contract updates are pending, one of them not applied: its storage map is
\* cached and has no entry for the name, while the register of the map is in
\* the ledger and its slab is persisted, as a Commit without the contract
\* updates leaves them
C19_Witness ==
    \E key \in DOMAIN contractUpdates :
        LET mapKey == StorageKey(key.Address, StorageDomainContract)
        IN  /\ ~contractUpdates[key].isNil
            /\ mapKey \in DOMAIN storageMaps /\ mapKey \in DOMAIN writes
            /\ ContractEntry(Engine, key) = Missing
            /\ ledger[mapKey] = writes[mapKey]
            /\ storageMaps[mapKey].root \in DOMAIN baseStorage
            /\ DOMAIN deltas = {}

\* the calls which release a Storable, in the order they are made
Releases(events) == SelectSeq(events, LAMBDA e : e.op \in {"DeepRemove", "RemoveReferencedSlab"})

\* C20: a recordContractUpdate for a key with a pending Storable releases it
\* exactly once, by one DeepRemove of its stored value and then one
\* RemoveReferencedSlab of the Storable, while the buffer still holds it, and
\* only then puts the new value in the buffer; a recordContractUpdate for a
\* key with no entry in the buffer releases nothing
C20_PriorReleasedOnce ==
    \A key \in ContractKeys, contract \in Contracts :
        LET s0 == Ready(Engine)
            s1 == removeExisting(s0, key)
            s == recordContractUpdate(s0, key.Address, key.Key, contract)
            new == IF contract = NilContract THEN NilStorable ELSE Storable(contract)
        IN  /\ (key \in DOMAIN contractUpdates /\ ~contractUpdates[key].isNil) =>
                   /\ s.status = "ok"
                   /\ Releases(s.events) =
                          <<[op |-> "DeepRemove", value |-> contractUpdates[key].slab],
                            [op |-> "RemoveReferencedSlab", storable |-> contractUpdates[key]]>>
                   /\ Releases(s1.events) = Releases(s.events)
                   /\ s1.contractUpdates = contractUpdates
                   /\ s.contractUpdates = (key :> new) @@ contractUpdates
            /\ key \notin DOMAIN contractUpdates =>
                   /\ s.status = "ok"
                   /\ Len(Releases(s.events)) = 0
                   /\ s.contractUpdates = (key :> new) @@ contractUpdates

\* the second contract value recorded is pending for a key and the buffer has
\* no other entry: it has replaced the first one, which was pending for the
\* same key
C20_Witness ==
    \E key \in DOMAIN contractUpdates :
        /\ DOMAIN contractUpdates = {key}
        /\ ~contractUpdates[key].isNil
        /\ contractUpdates[key].slab = 2
        /\ nextValue = 3

\* C21: a CheckHealth which fails with the error of a storage map pointing to
\* a non-existing slab names the root of a cached storage map which is no
\* root slab of the store; no cached storage map, of the zero address or of an
\* account, whose root slab is in the store is reported
C21_DanglingOnlyIfMissing ==
    \A run \in CheckHealthRuns(Engine) :
        run.out.err.kind = "account storage map points to non-existing slab" =>
            /\ run.out.err.ids[1] \in CachedRoots
            /\ run.out.err.ids[1] \notin CheckStorageHealth(Engine)

\* the storage IDs of the zero address
TemporaryIDs == {StorageID(ZeroAddress, IndexBytes(n)) : n \in 1..MaxIndex}

\* the engine with the slabs of ids as its root slabs of the zero address
WithTemporarySlabs(s, ids) ==
    LET kept == {id \in DOMAIN s.deltas : id.Address # ZeroAddress}
        base == {id \in DOMAIN s.baseStorage : id.Address # ZeroAddress}
    IN  [s EXCEPT !.deltas = [id \in kept \cup ids |-> IF id \in kept THEN s.deltas[id] ELSE EmptyMap],
                  !.baseStorage = [id \in base |-> s.baseStorage[id]]]

\* what the runs of CheckHealth return
Verdicts(s) ==
    {[fault |-> run.fault, status |-> run.out.status, err |-> run.out.err] :
        run \in CheckHealthRuns(s)}

\* C22: no CheckHealth lists a root slab of the zero address as unreferenced,
\* and CheckHealth returns the same whatever root slabs of the zero address the
\* store has: adding or removing such slabs neither makes it report
\* unreferenced slabs nor changes the list it reports
C22_TemporarySlabsNotCounted ==
    /\ \A run \in CheckHealthRuns(Engine) :
           run.out.err.kind = "slabs not referenced from account storage" =>
               \A i \in 1..Len(run.out.err.ids) : run.out.err.ids[i].Address # ZeroAddress
    /\ \A ids \in SUBSET TemporaryIDs :
           Verdicts(WithTemporarySlabs(Engine, ids)) = Verdicts(Engine)

\* CheckHealth has listed unreferenced slabs while the store has a root slab of
\* the zero address, which is the root of no cached storage map
C22_Witness ==
    /\ lastError.kind = "slabs not referenced from account storage"
    /\ TemporarySlabs(Engine) # {}

\* C23: every key of the pending writes is a key of the cached storage maps,
\* and its bytes are the 8 bytes of the storage index of the root of the
\* cached storage map; so a GetStorageMap for a key which is not cached finds
\* no pending write for it and asks the ledger
C23_WritesAreCached ==
    /\ \A k \in DOMAIN writes :
           /\ k \in DOMAIN storageMaps
           /\ Len(writes[k]) = storageIndexLength
           /\ writes[k] = storageMaps[k].root.Index
           /\ storageMaps[k].root.Address = k.Address
    /\ \A key \in LedgerKeys \ DOMAIN storageMaps :
           /\ key \notin DOMAIN writes
           /\ \A s \in GetStorageMapOutcomes(Engine, key) :
                  /\ Len(Calls(s.events, "GetValue")) = 1
                  /\ Calls(s.events, "GetValue")[1].key = key

\* a storage map which was created has its pending write, a storage map which
\* was loaded from its register has none, and a third key is not cached
C23_Witness ==
    /\ \E k \in DOMAIN writes : writes[k] = storageMaps[k].root.Index
    /\ DOMAIN storageMaps \ DOMAIN writes # {}
    /\ {StorageKey(Account1, StorageDomainContract), StorageKey(Account1, "storage")}
           \ DOMAIN storageMaps # {}

\* the keys of the storage maps which the operation that led to c has created
CreatedMaps(c) ==
    {k \in DOMAIN c.storageMaps \ DOMAIN storageMaps :
        \E i \in 1..Len(c.events) :
            /\ c.events[i].op = "AllocateStorageIndex"
            /\ c.events[i].id = c.storageMaps[k].root}

\* the keys Commit has given to SetValue, in the order of the calls
SetValueKeys(events) ==
    [i \in 1..Len(Calls(events, "SetValue")) |-> Calls(events, "SetValue")[i].key]

\* C24: when a Commit of the contract updates creates a "contract" storage
\* map, which was not cached and had no register, the same Commit hands the
\* index of its root to the ledger with the other pending writes, all in
\* ascending order of their keys: a Commit which the ledger ends early has
\* written the keys before the failing one, and after a Commit which succeeds
\* the register of the map holds the 8 bytes of that index
C24_CreatedMapIsWritten ==
    \A run \in CommitRuns(Engine, TRUE) :
        LET c == run.out
            keys == SetValueKeys(c.events)
            written == {keys[i] : i \in 1..Len(keys)}
        IN  (~c.overflow /\ c.status # "panic") =>
                /\ \A i, j \in 1..Len(keys) : i < j => KeyBefore(keys[i], keys[j])
                /\ \A k \in CreatedMaps(c) :
                       /\ k.Key = StorageDomainContract
                       /\ k \notin DOMAIN storageMaps /\ Len(ledger[k]) = 0
                       /\ k \in DOMAIN c.writes
                       /\ \A w \in written : KeyBefore(k, w) => k \in written
                       /\ \A i \in 1..Len(Calls(c.events, "SetValue")) :
                              Calls(c.events, "SetValue")[i].key = k =>
                                  Calls(c.events, "SetValue")[i].data = c.storageMaps[k].root.Index
                       /\ c.status = "ok" =>
                              /\ k \in written
                              /\ written = DOMAIN c.writes
                              /\ Len(c.ledger[k]) = storageIndexLength
                              /\ c.ledger[k] = c.storageMaps[k].root.Index

\* a contract update of an account is applied and the register of the
\* "contract" storage map of the account holds the index of its root, next to
\* the register of another storage map, written from its pending write
C24_Witness ==
    \E key \in DOMAIN contractUpdates :
        LET mapKey == StorageKey(key.Address, StorageDomainContract)
        IN  /\ mapKey \in DOMAIN storageMaps /\ mapKey \in DOMAIN writes
            /\ ContractEntry(Engine, key) # Missing
            /\ ledger[mapKey] = storageMaps[mapKey].root.Index
            /\ \E other \in DOMAIN writes :
                   /\ KeyBefore(other, mapKey)
                   /\ ledger[other] = writes[other]

\* C25: no recordContractUpdate releases, by DeepRemove or by the removal of
\* its slab, the value which a Commit has written into the "contract" storage
\* map under the key of the update
C25_CommittedNeverReleased ==
    \A key \in ContractKeys, contract \in Contracts :
        LET s == recordContractUpdate(Ready(Engine), key.Address, key.Key, contract)
            released == Releases(s.events)
        IN  \A i \in 1..Len(released) :
                /\ released[i].op = "DeepRemove" =>
                       ContractEntry(Engine, key) # NewSomeValueNonCopying(released[i].value)
                /\ released[i].op = "RemoveReferencedSlab" =>
                       ContractEntry(Engine, key) # NewSomeValueNonCopying(released[i].storable.slab)

\* C26: on the first engine over an empty ledger and an empty slab storage,
\* after GetStorageMap calls for an account and Commit calls, the roots of the
\* cached storage maps are exactly the account root slabs of the store, and
\* every CheckHealth for which the store reports its roots succeeds
C26_HealthPreserved ==
    /\ CachedRoots \subseteq AccountRooted
    /\ AccountRooted \subseteq CachedRoots
    /\ \A run \in CheckHealthRuns(Engine) :
           run.fault = NoFault => run.out.status = "ok" /\ run.out.err = NoError

\* a storage map was created and committed, its slab persisted and its
\* register written, and a second one was created after the Commit
C26_Witness ==
    \E k1, k2 \in DOMAIN storageMaps :
        /\ k1 # k2
        /\ storageMaps[k1].root \in DOMAIN baseStorage
        /\ ledger[k1] = storageMaps[k1].root.Index
        /\ storageMaps[k2].root \in DOMAIN deltas
        /\ Len(ledger[k2]) = 0
        /\ lastError = NoError

====
